---- MODULE Spec2Model ----
(***************************************************************************)
(* TikIQ (src/main.py): three FastAPI query endpoints, each wrapped in an  *)
(* aiocache @cached(ttl=..., cache=Cache.MEMORY) decorator, resolving a    *)
(* query against the official Research API, the managed tikapi service or  *)
(* the unofficial TikTokApi library.                                       *)
(*                                                                         *)
(* A request is a coroutine.  It only yields to the event loop while it    *)
(* awaits an httpx call (official, managed); everything between two such   *)
(* awaits, the synchronous TikTokApi call included, is one atomic step.    *)
(***************************************************************************)
EXTENDS Integers, Sequences, FiniteSets, TLC

VARIABLES TIKTOK_CLIENT_KEY, TIKTOK_CLIENT_SECRET, TIKAPI_KEY, USE_UNOFFICIAL,
          now, cache, pc, query, attempts, resp, hit, ver, issued,
          stale, fresh

config == <<TIKTOK_CLIENT_KEY, TIKTOK_CLIENT_SECRET, TIKAPI_KEY, USE_UNOFFICIAL>>
reqvars == <<pc, query, attempts, resp, hit, ver, issued, stale, fresh>>
vars == <<TIKTOK_CLIENT_KEY, TIKTOK_CLIENT_SECRET, TIKAPI_KEY, USE_UNOFFICIAL,
          now, cache, pc, query, attempts, resp, hit, ver, issued,
          stale, fresh>>

(* ---- bounds ---- *)
MaxIssued == 2
MaxTicks == 2

(* ---- program constants ---- *)
CACHE_TTL == 60
HASHTAGS_TTL == 120

(* the clock advances in steps of the shorter TTL *)
TickStep == CACHE_TTL

(* two coroutines may be in flight; r1 is taken first when both are free *)
Req == {"r1", "r2"}
Usernames == {"alice", "bob"}
VideoIds == {"v1"}
SearchCount == 5
HashtagCount == 20

Queries ==
    [kind : {"search_user"}, username : Usernames, count : {SearchCount}]
    \cup [kind : {"video_stats"}, video_id : VideoIds]
    \cup [kind : {"trending_hashtags"}, count : {HashtagCount}]

NoQuery == [kind |-> "none"]

(* None: no response yet, no cached value *)
NoResp == [status |-> 0, body |-> [detail |-> "pending"]]

(* ---- the @cached decorator ---- *)

FuncName(q) ==
    CASE q.kind = "search_user" -> "api_search_user"
      [] q.kind = "video_stats" -> "api_video_stats"
      [] q.kind = "trending_hashtags" -> "trending_hashtags"

(* str(sorted(kwargs.items())) of the keyword arguments FastAPI passes *)
KwargsStr(q) ==
    CASE q.kind = "search_user" ->
           "[('count', " \o ToString(q.count) \o "), ('username', '" \o q.username \o "')]"
      [] q.kind = "video_stats" ->
           "[('video_id', '" \o q.video_id \o "')]"
      [] q.kind = "trending_hashtags" ->
           "[('count', " \o ToString(q.count) \o ")]"

(* variant: a key builder that leaves the keyword arguments out *)
CacheKeyMut(q) == "main" \o FuncName(q) \o "()"

(* aiocache default key: module + function name + str(args) + str(kwargs) *)
CacheKey(q) == "main" \o FuncName(q) \o "()" \o KwargsStr(q)

(* variant: every endpoint decorated with ttl=CACHE_TTL *)
TTLMut(q) == CACHE_TTL

TTL(q) == IF q.kind = "trending_hashtags" THEN HASHTAGS_TTL ELSE CACHE_TTL

(* variant: off by one, an entry survives the instant its TTL ends *)
ExpiredMut(e, t) == t - e.insertedAt > e.ttl

(* the memory backend deletes an entry ttl seconds after it was set *)
Expired(e, t) == t - e.insertedAt >= e.ttl

(* variant: a lookup that never finds anything *)
CacheGetMut(c, q) == NoResp

(* get_from_cache: the stored value, or None *)
CacheGet(c, q) ==
    IF CacheKey(q) \in DOMAIN c THEN c[CacheKey(q)].value ELSE NoResp

(* variant: add-if-absent, the first writer of a key wins *)
CacheSetIfAbsent(c, q, value, t) ==
    IF CacheKey(q) \in DOMAIN c
    THEN c
    ELSE [k \in DOMAIN c \cup {CacheKey(q)} |->
            IF k = CacheKey(q)
            THEN [value |-> value, insertedAt |-> t, ttl |-> TTL(q)]
            ELSE c[k]]

(* set_in_cache: the key's entry is replaced *)
CacheSet(c, q, value, t) ==
    [k \in DOMAIN c \cup {CacheKey(q)} |->
        IF k = CacheKey(q)
        THEN [value |-> value, insertedAt |-> t, ttl |-> TTL(q)]
        ELSE c[k]]

(* ---- configuration guards ---- *)

(* handler guard: if TIKTOK_CLIENT_KEY and TIKTOK_CLIENT_SECRET *)
HasOfficialCreds == TIKTOK_CLIENT_KEY /\ TIKTOK_CLIENT_SECRET

(* call_tiktok_research raises RuntimeError before any request without both *)
ResearchCredsOK == TIKTOK_CLIENT_KEY /\ TIKTOK_CLIENT_SECRET

(* variant: the managed branch taken without checking the key *)
UseManagedMut == TRUE

UseManaged == TIKAPI_KEY

UseUnofficial == USE_UNOFFICIAL

(* ---- responses ---- *)

Payload(p, q, v) == [prov |-> p, q |-> q, ver |-> v]

Ok(source, data) == [status |-> 200, body |-> [source |-> source, data |-> data]]

HTTPError(code, detail) == [status |-> code, body |-> [detail |-> detail]]

(* an exception no handler catches: Starlette's plain 500 *)
Unhandled == [status |-> 500, body |-> [text |-> "Internal Server Error"]]

NoSourceMsg == "No available TikTok data source configured."

(* variant: the failure reported as a 200 fallback payload *)
SearchUserFailedMut(e) == Ok("fallback", [error |-> "no_fallback", message |-> e])

SearchUserFailed(e) == HTTPError(500, "Failed to fetch user: " \o e)

NoSourceVideo == HTTPError(500, "No data source available for video stats.")

(* variant: the hashtags endpoint reporting 500 as video_stats does *)
NoSourceHashtagsMut == HTTPError(500, "No data source available for trending hashtags.")

NoSourceHashtags ==
    HTTPError(503, "Trending hashtags service unavailable. Configure API keys or enable fallback.")

OfficialSource == "official"

(* variant: the managed result tagged like the official one *)
ManagedSourceMut(q) == OfficialSource

ManagedSource(q) == IF q.kind = "search_user" THEN "fallback" ELSE "tikapi"

(* variant: the unofficial result tagged with the managed provider's name *)
UnofficialSourceTikapi(q) == IF q.kind = "search_user" THEN "fallback" ELSE "tikapi"

UnofficialSource(q) == IF q.kind = "search_user" THEN "fallback" ELSE "unofficial"

(* ---- handler bodies, up to the next await ---- *)

Await(p, att) == [t |-> "await", prov |-> p, attempts |-> att, resp |-> NoResp]
Return(r, att) == [t |-> "return", prov |-> "none", attempts |-> att, resp |-> r]
Raise(r, att) == [t |-> "raise", prov |-> "none", attempts |-> att, resp |-> r]

Att(p, ok) == [prov |-> p, ok |-> ok]

(* fallback_get_user inside api_search_user's second try block *)
FallbackSearchUser(q, v, att) ==
    IF UseManaged THEN {Await("managed", att)}
    ELSE IF UseUnofficial THEN
        { Raise(SearchUserFailed("Unofficial TikTokApi not installed or failed to import."),
                Append(att, Att("unofficial", FALSE))),
          Return(Ok(UnofficialSource(q), Payload("unofficial", q, v)),
                 Append(att, Att("unofficial", TRUE))),
          Raise(SearchUserFailed("unofficial error"),
                Append(att, Att("unofficial", FALSE))) }
    ELSE {Raise(SearchUserFailed(NoSourceMsg), att)}

(* variant: the TikTokApi call of api_video_stats outside its try block *)
FallbackVideoStatsNoCatch(q, v, att) ==
    IF UseManaged THEN {Await("managed", att)}
    ELSE IF UseUnofficial THEN
        { Return(Ok(UnofficialSource(q), Payload("unofficial", q, v)),
                 Append(att, Att("unofficial", TRUE))),
          Raise(Unhandled, Append(att, Att("unofficial", FALSE))) }
    ELSE {Raise(NoSourceVideo, att)}

(* api_video_stats after the official try block *)
FallbackVideoStats(q, v, att) ==
    IF UseManaged THEN {Await("managed", att)}
    ELSE IF UseUnofficial THEN
        { Return(Ok(UnofficialSource(q), Payload("unofficial", q, v)),
                 Append(att, Att("unofficial", TRUE))),
          Raise(NoSourceVideo, Append(att, Att("unofficial", FALSE))) }
    ELSE {Raise(NoSourceVideo, att)}

(* trending_hashtags after the official try block *)
FallbackHashtags(q, v, att) ==
    IF UseManaged THEN {Await("managed", att)}
    ELSE {Raise(NoSourceHashtags, att)}

Fallback(q, v, att) ==
    CASE q.kind = "search_user" -> FallbackSearchUser(q, v, att)
      [] q.kind = "video_stats" -> FallbackVideoStats(q, v, att)
      [] q.kind = "trending_hashtags" -> FallbackHashtags(q, v, att)

(* the first try block of each handler *)
Handler(q, v) ==
    IF HasOfficialCreds /\ ResearchCredsOK
    THEN {Await("official", <<>>)}
    ELSE Fallback(q, v, <<>>)

(* variant: the official call outside its try block *)
AfterOfficialNoCatch(q, v, att, ok) ==
    IF ok
    THEN {Return(Ok(OfficialSource, Payload("official", q, v)),
                 Append(att, Att("official", TRUE)))}
    ELSE {Raise(Unhandled, Append(att, Att("official", FALSE)))}

(* variant: the official provider's status error handed to the caller *)
AfterOfficialPassThrough(q, v, att, ok) ==
    IF ok
    THEN {Return(Ok(OfficialSource, Payload("official", q, v)),
                 Append(att, Att("official", TRUE)))}
    ELSE {Raise(HTTPError(503, "official provider status error"),
                Append(att, Att("official", FALSE)))}

(* variant: the return after the official call missing *)
AfterOfficialNoReturn(q, v, att, ok) ==
    Fallback(q, v, Append(att, Att("official", ok)))

(* resp.raise_for_status(); return resp.json() of the official call *)
AfterOfficial(q, v, att, ok) ==
    IF ok
    THEN {Return(Ok(OfficialSource, Payload("official", q, v)),
                 Append(att, Att("official", TRUE)))}
    ELSE Fallback(q, v, Append(att, Att("official", FALSE)))

(* variant: a failed managed call is retried once *)
AfterManagedRetry(q, v, att, ok) ==
    IF ok
    THEN {Return(Ok(ManagedSource(q), Payload("managed", q, v)),
                 Append(att, Att("managed", TRUE)))}
    ELSE IF \A i \in DOMAIN att : att[i].prov # "managed"
         THEN {Await("managed", Append(att, Att("managed", FALSE)))}
         ELSE {Raise(Unhandled, Append(att, Att("managed", FALSE)))}

(* the managed call: its failure is caught only in api_search_user *)
AfterManaged(q, v, att, ok) ==
    IF ok
    THEN {Return(Ok(ManagedSource(q), Payload("managed", q, v)),
                 Append(att, Att("managed", TRUE)))}
    ELSE IF q.kind = "search_user"
         THEN {Raise(SearchUserFailed("managed transport error"),
                     Append(att, Att("managed", FALSE)))}
         ELSE {Raise(Unhandled, Append(att, Att("managed", FALSE)))}

(* ---- actions ---- *)

(* variant: a wrapper that also stores the error a handler raised *)
ContinueMut(r, q, o) ==
    /\ pc' = [pc EXCEPT ![r] = IF o.t = "await" THEN o.prov ELSE "done"]
    /\ attempts' = [attempts EXCEPT ![r] = o.attempts]
    /\ resp' = [resp EXCEPT ![r] = o.resp]
    /\ fresh' = [fresh EXCEPT ![r] = o.t # "await"]
    /\ cache' = IF o.t # "await" THEN CacheSet(cache, q, o.resp, now) ELSE cache

(* the decorator's epilogue: a returned value is stored, an exception is not *)
Continue(r, q, o) ==
    /\ pc' = [pc EXCEPT ![r] = IF o.t = "await" THEN o.prov ELSE "done"]
    /\ attempts' = [attempts EXCEPT ![r] = o.attempts]
    /\ resp' = [resp EXCEPT ![r] = o.resp]
    /\ fresh' = [fresh EXCEPT ![r] = o.t # "await"]
    /\ cache' = IF o.t = "return" THEN CacheSet(cache, q, o.resp, now) ELSE cache

Init ==
    /\ TIKTOK_CLIENT_KEY \in BOOLEAN
    /\ TIKTOK_CLIENT_SECRET \in BOOLEAN
    /\ TIKAPI_KEY \in BOOLEAN
    /\ USE_UNOFFICIAL \in BOOLEAN
    /\ now = 0
    /\ cache = [k \in {} |-> NoResp]
    /\ pc = [r \in Req |-> "idle"]
    /\ query = [r \in Req |-> NoQuery]
    /\ attempts = [r \in Req |-> <<>>]
    /\ resp = [r \in Req |-> NoResp]
    /\ hit = [r \in Req |-> FALSE]
    /\ ver = [r \in Req |-> 0]
    /\ issued = 0
    /\ stale = [r \in Req |-> FALSE]
    /\ fresh = [r \in Req |-> FALSE]

(* history: a response resolved for q is still on record while the entry it
   stored is gone, so that entry's TTL has elapsed *)
EntryExpired(q) ==
    /\ CacheGet(cache, q) = NoResp
    /\ \E s \in Req : /\ pc[s] = "done"
                      /\ query[s] = q
                      /\ ~hit[s]
                      /\ resp[s].status = 200

(* a GET arrives and a coroutine starts, in a free slot or in place of a
   finished one: cache lookup, then on a miss the handler runs to its first await *)
Request(r, q) ==
    /\ pc[r] \in {"idle", "done"}
    /\ issued < MaxIssued
    /\ (r = "r1" \/ pc["r1"] # "idle")
    /\ issued' = issued + 1
    /\ ver' = [ver EXCEPT ![r] = issued + 1]
    /\ query' = [query EXCEPT ![r] = q]
    /\ stale' = [stale EXCEPT ![r] = EntryExpired(q)]
    /\ IF CacheGet(cache, q) # NoResp
       THEN /\ hit' = [hit EXCEPT ![r] = TRUE]
            /\ pc' = [pc EXCEPT ![r] = "done"]
            /\ resp' = [resp EXCEPT ![r] = CacheGet(cache, q)]
            /\ fresh' = [fresh EXCEPT ![r] = TRUE]
            /\ attempts' = [attempts EXCEPT ![r] = <<>>]
            /\ UNCHANGED cache
       ELSE /\ hit' = [hit EXCEPT ![r] = FALSE]
            /\ \E o \in Handler(q, issued + 1) : Continue(r, q, o)
    /\ UNCHANGED <<config, now>>

OfficialReturn(r, ok) ==
    /\ pc[r] = "official"
    /\ \E o \in AfterOfficial(query[r], ver[r], attempts[r], ok) : Continue(r, query[r], o)
    /\ UNCHANGED <<config, now, query, hit, ver, issued, stale>>

ManagedReturn(r, ok) ==
    /\ pc[r] = "managed"
    /\ \E o \in AfterManaged(query[r], ver[r], attempts[r], ok) : Continue(r, query[r], o)
    /\ UNCHANGED <<config, now, query, hit, ver, issued, stale>>

(* time passes; the backend's call_later handles delete what has expired *)
Tick ==
    /\ now < MaxTicks * TickStep
    /\ now' = now + TickStep
    /\ cache' = [k \in {j \in DOMAIN cache : ~Expired(cache[j], now + TickStep)} |-> cache[k]]
    /\ fresh' = [r \in Req |-> FALSE]
    /\ UNCHANGED <<config, pc, query, attempts, resp, hit, ver, issued, stale>>

Next ==
    \/ \E r \in Req, q \in Queries : Request(r, q)
    \/ \E r \in Req, ok \in BOOLEAN : OfficialReturn(r, ok)
    \/ \E r \in Req, ok \in BOOLEAN : ManagedReturn(r, ok)
    \/ Tick

Spec == Init /\ [][Next]_vars

(* every awaited httpx call carries timeout=20: it returns or raises *)
FairSpec ==
    /\ Spec
    /\ \A r \in Req :
          /\ WF_vars(\E ok \in BOOLEAN : OfficialReturn(r, ok))
          /\ WF_vars(\E ok \in BOOLEAN : ManagedReturn(r, ok))

TypeOK ==
    /\ now \in 0..(MaxTicks * TickStep)
    /\ issued \in 0..MaxIssued
    /\ \A r \in Req : pc[r] \in {"idle", "official", "managed", "done"}

(* ---- vocabulary of the properties ---- *)

(* r has its response and obtained it by running the handler *)
Resolved(r) == pc[r] = "done" /\ ~hit[r]

NoProviderConfigured ==
    /\ ~(TIKTOK_CLIENT_KEY /\ TIKTOK_CLIENT_SECRET)
    /\ ~TIKAPI_KEY
    /\ ~USE_UNOFFICIAL

IsSuccess(x) == x.status = 200 /\ "source" \in DOMAIN x.body

SourceOf(x) == IF "source" \in DOMAIN x.body THEN x.body.source ELSE "none"

DetailOf(x) == IF "detail" \in DOMAIN x.body THEN x.body.detail ELSE "none"

(* the providers r has called, in call order, the pending call included *)
Invoked(r) ==
    [i \in 1..Len(attempts[r]) |-> attempts[r][i].prov]
    \o (IF pc[r] \in {"official", "managed"} THEN <<pc[r]>> ELSE <<>>)

(* C1, as stated: with no provider configured search_user answers 200 with
   source "fallback" and an error marker "no_fallback" *)
C1_Original ==
    \A r \in Req :
        (pc[r] = "done" /\ query[r].kind = "search_user" /\ NoProviderConfigured)
        => /\ resp[r].status = 200
           /\ SourceOf(resp[r]) = "fallback"
           /\ "data" \in DOMAIN resp[r].body
           /\ "error" \in DOMAIN resp[r].body.data
           /\ resp[r].body.data.error = "no_fallback"

(* C1, amended: with no provider configured every search_user query ends in
   HTTP 500 whose detail is "Failed to fetch user: No available TikTok data
   source configured."; it is never a 200 payload and no provider is called *)
C1_SearchUserNoProvider500 ==
    \A r \in Req :
        (pc[r] = "done" /\ query[r].kind = "search_user" /\ NoProviderConfigured)
        => /\ resp[r].status = 500
           /\ DetailOf(resp[r]) =
                "Failed to fetch user: No available TikTok data source configured."
           /\ ~IsSuccess(resp[r])
           /\ attempts[r] = <<>>

C1_Witness ==
    \E r \in Req :
        /\ pc[r] = "done" /\ query[r].kind = "search_user" /\ NoProviderConfigured
        /\ resp[r].status = 500

(* C2: with no provider configured video_stats ends in 500 and
   trending_hashtags in 503 with a detail about unavailability; neither is a
   {source, data} payload and no provider is called *)
C2_NoProviderErrors ==
    NoProviderConfigured =>
        \A r \in Req :
            /\ Invoked(r) = <<>>
            /\ (pc[r] = "done" /\ query[r].kind = "video_stats")
               => /\ resp[r].status = 500
                  /\ DetailOf(resp[r]) = "No data source available for video stats."
                  /\ ~IsSuccess(resp[r])
            /\ (pc[r] = "done" /\ query[r].kind = "trending_hashtags")
               => /\ resp[r].status = 503
                  /\ DetailOf(resp[r]) =
                       "Trending hashtags service unavailable. Configure API keys or enable fallback."
                  /\ ~IsSuccess(resp[r])

C2_Witness ==
    /\ NoProviderConfigured
    /\ \E r, s \in Req :
        /\ pc[r] = "done" /\ query[r].kind = "video_stats" /\ resp[r].status = 500
        /\ pc[s] = "done" /\ query[s].kind = "trending_hashtags" /\ resp[s].status = 503

(* the official call failed and the managed call then succeeded *)
OfficialFailedManagedOk(r) ==
    /\ Resolved(r)
    /\ TIKTOK_CLIENT_KEY /\ TIKTOK_CLIENT_SECRET /\ TIKAPI_KEY
    /\ attempts[r] = <<Att("official", FALSE), Att("managed", TRUE)>>

(* C3, as stated: on every endpoint, official failed and managed succeeded
   gives source "tikapi", never "official" *)
C3_Original ==
    \A r \in Req :
        OfficialFailedManagedOk(r)
        => SourceOf(resp[r]) = "tikapi" /\ SourceOf(resp[r]) # "official"

(* C3, amended: official failed and managed succeeded gives source "tikapi"
   on video_stats and trending_hashtags and source "fallback" on search_user;
   it is never "official" *)
C3_ManagedSourceTag ==
    \A r \in Req :
        OfficialFailedManagedOk(r)
        => /\ resp[r].status = 200
           /\ SourceOf(resp[r]) # "official"
           /\ query[r].kind \in {"video_stats", "trending_hashtags"}
              => SourceOf(resp[r]) = "tikapi"
           /\ query[r].kind = "search_user" => SourceOf(resp[r]) = "fallback"

C3_Witness ==
    \E r, s \in Req :
        /\ OfficialFailedManagedOk(r) /\ query[r].kind = "search_user"
        /\ OfficialFailedManagedOk(s) /\ query[s].kind # "search_user"

(* no provider appears twice among the calls of r *)
NoRepeat(r) ==
    \A i, j \in DOMAIN Invoked(r) : i # j => Invoked(r)[i] # Invoked(r)[j]

(* in this step a request arrives in slot r *)
Arrives(r) == ver'[r] # ver[r]

(* in this step the request in slot r gets its response *)
Completes(r) == pc'[r] = "done" /\ (pc[r] # "done" \/ Arrives(r))

(* C4: a query arriving while an entry for its key is stored and younger than
   its TTL is answered in that step with exactly the stored response, calls no
   provider and leaves the cache as it is; the resolution that stored the
   entry called each provider at most once *)
C4_CacheIdempotence ==
    /\ [](\A r \in Req : NoRepeat(r))
    /\ [][\A r \in Req :
            (/\ Arrives(r)
             /\ CacheKey(query'[r]) \in DOMAIN cache
             /\ now - cache[CacheKey(query'[r])].insertedAt < cache[CacheKey(query'[r])].ttl)
            => /\ pc'[r] = "done"
               /\ hit'[r]
               /\ attempts'[r] = <<>>
               /\ resp'[r] = cache[CacheKey(query'[r])].value
               /\ cache' = cache]_vars

C4_Witness ==
    \E r, s \in Req :
        /\ Resolved(s) /\ IsSuccess(resp[s]) /\ attempts[s] # <<>>
        /\ pc[r] = "done" /\ hit[r] /\ query[r] = query[s]
        /\ ver[r] > ver[s]
        /\ fresh[r]
        /\ CacheKey(query[r]) \in DOMAIN cache
        /\ cache[CacheKey(query[r])].insertedAt < now
        /\ resp[r] = resp[s]
        /\ attempts[r] = <<>>

(* C5, as stated: a query issued once the TTL of its key's entry has elapsed
   runs one resolution whose outcome becomes the key's entry, inserted now *)
C5_Original ==
    [][\A r \in Req :
        (Completes(r) /\ stale'[r])
        => /\ ~hit'[r]
           /\ CacheKey(query'[r]) \in DOMAIN cache'
           /\ cache'[CacheKey(query'[r])].value = resp'[r]
           /\ cache'[CacheKey(query'[r])].insertedAt = now]_vars

(* C5, amended: every stored entry is younger than its TTL; a query arriving
   when no entry is stored runs the handler once; when that resolution returns
   a response it becomes the key's entry with insertion time now, and when it
   ends in an error nothing is stored and the cache is left as it was *)
C5_CacheExpiry ==
    /\ [](\A k \in DOMAIN cache :
            /\ cache[k].insertedAt <= now
            /\ now - cache[k].insertedAt < cache[k].ttl)
    /\ [](\A r \in Req : stale[r] => ~hit[r] /\ NoRepeat(r))
    /\ [][\A r \in Req :
            (Arrives(r) /\ CacheKey(query'[r]) \notin DOMAIN cache) => ~hit'[r]]_vars
    /\ [][\A r \in Req :
            (Completes(r) /\ ~hit'[r])
            => IF resp'[r].status = 200
               THEN /\ CacheKey(query'[r]) \in DOMAIN cache'
                    /\ cache'[CacheKey(query'[r])] =
                         [value |-> resp'[r], insertedAt |-> now,
                          ttl |-> IF query'[r].kind = "trending_hashtags"
                                  THEN HASHTAGS_TTL ELSE CACHE_TTL]
               ELSE cache' = cache]_vars

C5_Witness ==
    \E r \in Req :
        /\ Resolved(r) /\ stale[r] /\ IsSuccess(resp[r])
        /\ CacheKey(query[r]) \in DOMAIN cache
        /\ cache[CacheKey(query[r])].value = resp[r]
        /\ cache[CacheKey(query[r])].insertedAt = now
        /\ now >= CACHE_TTL

(* C6, as stated: after a resolution failed, an identical query arriving
   within the TTL (here: at the instant of the failure) is served the stored
   outcome and calls no provider *)
C6_Original ==
    [][\A r, s \in Req :
        (/\ r # s
         /\ Resolved(s) /\ ~IsSuccess(resp[s])
         /\ fresh[s]
         /\ Arrives(r) /\ query'[r] = query[s])
        => /\ hit'[r]
           /\ pc'[r] = "done"
           /\ attempts'[r] = <<>>]_vars

(* C6, amended: failures are not cached.  A resolution that ends in an error
   stores nothing, every stored value and every response served from the cache
   is a 200 {source, data} payload, and an identical query arriving after a
   failure, within the TTL or not, runs the handler again while no entry for
   its key is stored *)
C6_FailuresNotCached ==
    /\ [](\A k \in DOMAIN cache : IsSuccess(cache[k].value))
    /\ [](\A r \in Req : (pc[r] = "done" /\ hit[r]) => IsSuccess(resp[r]))
    /\ [][\A r \in Req :
            (Completes(r) /\ ~IsSuccess(resp'[r])) => cache' = cache]_vars
    /\ [][\A r, s \in Req :
            (/\ r # s
             /\ Resolved(s) /\ ~IsSuccess(resp[s])
             /\ CacheKey(query[s]) \notin DOMAIN cache
             /\ Arrives(r) /\ query'[r] = query[s])
            => /\ ~hit'[r]
               /\ pc'[r] \in {"official", "managed"} \/ attempts'[r] # <<>>
                  \/ ~IsSuccess(resp'[r])]_vars

C6_Witness ==
    \E r, s \in Req :
        /\ Resolved(s) /\ ~IsSuccess(resp[s]) /\ attempts[s] # <<>>
        /\ Resolved(r) /\ query[r] = query[s] /\ ver[r] > ver[s]
        /\ fresh[s]
        /\ attempts[r] # <<>>

(* the attempt after index i of r's resolution is a call of provider p *)
FollowedBy(r, i, p) ==
    i < Len(attempts[r]) /\ attempts[r][i + 1].prov = p

(* the endpoint of r has an unofficial branch *)
HasUnofficialBranch(r) == query[r].kind \in {"search_user", "video_stats"}

(* C7, as stated: in a finished resolution every failed attempt is followed
   by the next applicable provider, a failed managed call by an unofficial
   attempt when the opt-in flag is set, and no provider is called twice *)
C7_Original ==
    \A r \in Req :
        Resolved(r) =>
            /\ NoRepeat(r)
            /\ \A i \in DOMAIN attempts[r] :
                ~attempts[r][i].ok =>
                    /\ (attempts[r][i].prov = "official" /\ TIKAPI_KEY)
                       => FollowedBy(r, i, "managed")
                    /\ (attempts[r][i].prov = "official" /\ ~TIKAPI_KEY
                          /\ USE_UNOFFICIAL /\ HasUnofficialBranch(r))
                       => FollowedBy(r, i, "unofficial")
                    /\ (attempts[r][i].prov = "managed"
                          /\ USE_UNOFFICIAL /\ HasUnofficialBranch(r))
                       => FollowedBy(r, i, "unofficial")

(* C7, amended: in a finished resolution a failed official call is followed
   by the managed call when its key is configured, otherwise by the unofficial
   call when opted in (search_user, video_stats); a failed managed call is the
   last attempt and the request ends in a 500 error, opt-in flag or not; no
   provider is called twice *)
C7_FallThrough ==
    \A r \in Req :
        /\ NoRepeat(r)
        /\ Resolved(r) =>
            \A i \in DOMAIN attempts[r] :
                ~attempts[r][i].ok =>
                    /\ (attempts[r][i].prov = "official" /\ TIKAPI_KEY)
                       => FollowedBy(r, i, "managed")
                    /\ (attempts[r][i].prov = "official" /\ ~TIKAPI_KEY
                          /\ USE_UNOFFICIAL /\ HasUnofficialBranch(r))
                       => FollowedBy(r, i, "unofficial")
                    /\ attempts[r][i].prov = "managed"
                       => /\ i = Len(attempts[r])
                          /\ resp[r].status = 500
                          /\ ~IsSuccess(resp[r])

C7_Witness ==
    \E r \in Req :
        /\ Resolved(r) /\ USE_UNOFFICIAL /\ HasUnofficialBranch(r)
        /\ attempts[r] = <<Att("official", FALSE), Att("managed", FALSE)>>
        /\ resp[r].status = 500

Rank(p) ==
    CASE p = "official" -> 1
      [] p = "managed" -> 2
      [] p = "unofficial" -> 3

(* C8: in every resolution, running or finished, a successful attempt is the
   last provider call, and calls are made in the order official, managed,
   unofficial *)
C8_ShortCircuit ==
    \A r \in Req :
        /\ \A i \in DOMAIN attempts[r] :
              attempts[r][i].ok => i = Len(Invoked(r))
        /\ \A i, j \in DOMAIN Invoked(r) :
              i < j => Rank(Invoked(r)[i]) < Rank(Invoked(r)[j])

C8_Witness ==
    \E r \in Req :
        /\ Resolved(r) /\ TIKAPI_KEY /\ USE_UNOFFICIAL
        /\ attempts[r] = <<Att("official", TRUE)>>
        /\ SourceOf(resp[r]) = "official"

(* provider p is among the calls of r *)
Called(r, p) == \E i \in DOMAIN Invoked(r) : Invoked(r)[i] = p

(* the slot is in use and its response did not come from the cache *)
Resolving(r) == pc[r] # "idle" /\ ~hit[r]

(* C9: the official provider is called only with both key and secret
   configured, the managed one only with its key, the unofficial one only with
   the opt-in flag; a skipped provider does not end the resolution: without
   official credentials the first call goes to the managed provider when its
   key is set, and video_stats with a successful managed call answers
   source "tikapi" *)
C9_SkipUnconfigured ==
    \A r \in Req :
        /\ Called(r, "official") => (TIKTOK_CLIENT_KEY /\ TIKTOK_CLIENT_SECRET)
        /\ Called(r, "managed") => TIKAPI_KEY
        /\ Called(r, "unofficial") => USE_UNOFFICIAL
        /\ (Resolving(r)
              /\ ~(TIKTOK_CLIENT_KEY /\ TIKTOK_CLIENT_SECRET) /\ TIKAPI_KEY)
           => (Invoked(r) # <<>> /\ Invoked(r)[1] = "managed")
        /\ (Resolved(r) /\ query[r].kind = "video_stats"
              /\ attempts[r] = <<Att("managed", TRUE)>>)
           => (resp[r].status = 200 /\ SourceOf(resp[r]) = "tikapi")

C9_Witness ==
    \E r \in Req :
        /\ Resolved(r) /\ query[r].kind = "video_stats"
        /\ ~TIKTOK_CLIENT_KEY /\ ~TIKTOK_CLIENT_SECRET /\ TIKAPI_KEY /\ ~USE_UNOFFICIAL
        /\ attempts[r] = <<Att("managed", TRUE)>>
        /\ SourceOf(resp[r]) = "tikapi"

(* C10: an entry stored under the key of query q holds a result resolved for
   q, every 200 response answers the query it was asked, and while time stands
   still a stored entry changes only when a resolution of its own key stores *)
C10_KeyedByQuery ==
    /\ [](\A q \in Queries :
            CacheKey(q) \in DOMAIN cache
            => cache[CacheKey(q)].value.body.data.q = q)
    /\ [](\A r \in Req :
            (pc[r] = "done" /\ IsSuccess(resp[r])) => resp[r].body.data.q = query[r])
    /\ [][\A q \in Queries :
            (CacheKey(q) \in DOMAIN cache /\ now' = now)
            => /\ CacheKey(q) \in DOMAIN cache'
               /\ \/ cache'[CacheKey(q)] = cache[CacheKey(q)]
                  \/ \E r \in Req : /\ query[r] = q
                                    /\ Completes(r)
                                    /\ ~hit'[r]]_vars

C10_Witness ==
    \E r, s \in Req :
        /\ Resolved(s) /\ IsSuccess(resp[s])
        /\ Resolved(r) /\ IsSuccess(resp[r])
        /\ query[r].kind = query[s].kind /\ query[r] # query[s]
        /\ ver[r] > ver[s]
        /\ CacheKey(query[s]) \in DOMAIN cache
        /\ cache[CacheKey(query[s])].value = resp[s]
        /\ CacheKey(query[r]) \in DOMAIN cache
        /\ cache[CacheKey(query[r])].value = resp[r]

(* the kind of query a stored entry answers *)
EntryKind(e) == e.value.body.data.q.kind

(* C11, as stated: video_stats entries live 30 s, search_user and
   trending_hashtags entries both live 120 s *)
C11_Original ==
    \A k \in DOMAIN cache :
        /\ EntryKind(cache[k]) = "video_stats" => cache[k].ttl = 30
        /\ EntryKind(cache[k]) \in {"search_user", "trending_hashtags"}
           => cache[k].ttl = 120

(* C11, amended: the TTL is one of two values, 60 s and 120 s; video_stats
   and search_user entries both live 60 s, strictly shorter than the 120 s of
   trending_hashtags entries, and no entry outlives its TTL *)
C11_TTLPerKind ==
    \A k \in DOMAIN cache :
        /\ EntryKind(cache[k]) \in {"video_stats", "search_user"}
           => (cache[k].ttl = 60 /\ now - cache[k].insertedAt < 60)
        /\ EntryKind(cache[k]) = "trending_hashtags"
           => (cache[k].ttl = 120 /\ now - cache[k].insertedAt < 120)
        /\ \A j \in DOMAIN cache :
              (EntryKind(cache[k]) # "trending_hashtags"
                 /\ EntryKind(cache[j]) = "trending_hashtags")
              => cache[k].ttl < cache[j].ttl

(* a hashtags entry is still stored at the age at which the entry of a
   finished video_stats or search_user resolution is already gone *)
C11_Witness ==
    /\ \E k \in DOMAIN cache :
          /\ EntryKind(cache[k]) = "trending_hashtags"
          /\ now - cache[k].insertedAt = 60
    /\ \E s \in Req :
          /\ Resolved(s) /\ IsSuccess(resp[s])
          /\ query[s].kind \in {"video_stats", "search_user"}
          /\ CacheKey(query[s]) \notin DOMAIN cache

(* r's resolution called at least one provider and every call failed *)
AllAttemptsFailed(r) ==
    /\ Resolved(r)
    /\ attempts[r] # <<>>
    /\ \A i \in DOMAIN attempts[r] : ~attempts[r][i].ok

LastProv(r) == attempts[r][Len(attempts[r])].prov

(* the response is the plain 500 of an exception that left the handler *)
Escaped(x) == x.status = 500 /\ "text" \in DOMAIN x.body

(* C12, as stated: when every attempted provider failed, search_user answers
   the 200 fallback-unavailable payload, video_stats the 500 "no data source"
   error, trending_hashtags the 503 error, and no raw provider exception
   leaves the handler *)
C12_Original ==
    \A r \in Req :
        AllAttemptsFailed(r) =>
            /\ ~Escaped(resp[r])
            /\ query[r].kind = "search_user"
               => (resp[r].status = 200 /\ SourceOf(resp[r]) = "fallback")
            /\ query[r].kind = "video_stats"
               => (resp[r].status = 500
                   /\ DetailOf(resp[r]) = "No data source available for video stats.")
            /\ query[r].kind = "trending_hashtags" => resp[r].status = 503

(* C12, amended: when every attempted provider failed, search_user answers
   500 with a detail starting "Failed to fetch user: "; video_stats answers
   the 500 "no data source" error and trending_hashtags the 503 error when
   the last failed call was not the managed one; when the managed call of
   video_stats or trending_hashtags fails its exception leaves the handler
   and the response is a plain 500 Internal Server Error *)
C12_AfterFailures ==
    \A r \in Req :
        AllAttemptsFailed(r) =>
            /\ ~IsSuccess(resp[r])
            /\ query[r].kind = "search_user"
               => /\ resp[r].status = 500
                  /\ ~Escaped(resp[r])
                  /\ DetailOf(resp[r]) \in
                       { "Failed to fetch user: No available TikTok data source configured.",
                         "Failed to fetch user: managed transport error",
                         "Failed to fetch user: unofficial error",
                         "Failed to fetch user: Unofficial TikTokApi not installed or failed to import." }
            /\ (query[r].kind = "video_stats" /\ LastProv(r) # "managed")
               => /\ resp[r].status = 500
                  /\ DetailOf(resp[r]) = "No data source available for video stats."
            /\ (query[r].kind = "trending_hashtags" /\ LastProv(r) # "managed")
               => /\ resp[r].status = 503
                  /\ DetailOf(resp[r]) =
                       "Trending hashtags service unavailable. Configure API keys or enable fallback."
            /\ (query[r].kind # "search_user" /\ LastProv(r) = "managed")
               => Escaped(resp[r])

C12_Witness ==
    \E r, s \in Req :
        /\ AllAttemptsFailed(r) /\ query[r].kind = "video_stats"
        /\ attempts[r] = <<Att("official", FALSE), Att("managed", FALSE)>>
        /\ Escaped(resp[r])
        /\ AllAttemptsFailed(s) /\ query[s].kind = "search_user"
        /\ resp[s].status = 500

(* C13: requests that missed the cache each answer with the result of their
   own resolution, and a resolution that returns a response makes it the
   key's entry whatever another request stored there before: the last writer
   wins *)
C13_ConcurrentMisses ==
    /\ [](\A r \in Req :
            (Resolved(r) /\ IsSuccess(resp[r]))
            => /\ resp[r].body.data.ver = ver[r]
               /\ resp[r].body.data.q = query[r])
    /\ [][\A r \in Req :
            (Completes(r) /\ ~hit'[r] /\ IsSuccess(resp'[r]))
            => /\ CacheKey(query'[r]) \in DOMAIN cache'
               /\ cache'[CacheKey(query'[r])].value = resp'[r]
               /\ cache'[CacheKey(query'[r])].insertedAt = now
               /\ \A k \in DOMAIN cache :
                     k # CacheKey(query'[r])
                     => (k \in DOMAIN cache' /\ cache'[k] = cache[k])]_vars

(* both requests missed and resolved the same query; s stored at an earlier
   instant, r stored last and its result is the entry *)
C13_Witness ==
    \E r, s \in Req :
        /\ r # s /\ query[r] = query[s]
        /\ Resolved(r) /\ IsSuccess(resp[r])
        /\ Resolved(s) /\ IsSuccess(resp[s])
        /\ resp[r] # resp[s]
        /\ fresh[r] /\ ~fresh[s]
        /\ now < TTL(query[s])
        /\ CacheKey(query[r]) \in DOMAIN cache
        /\ cache[CacheKey(query[r])].value = resp[r]
        /\ cache[CacheKey(query[r])].insertedAt = now

(* the official call of r failed; it is always the first call *)
OfficialFailed(r) ==
    /\ ~hit[r]
    /\ attempts[r] # <<>>
    /\ attempts[r][1] = Att("official", FALSE)

(* C14: on all three endpoints a failed official call is swallowed: the
   managed provider is called next when its key is configured, otherwise the
   unofficial one where the endpoint has that branch and the flag is set,
   otherwise the request ends in the endpoint's own unavailable error; the
   response is never the official provider's error *)
C14_OfficialErrorSwallowed ==
    \A r \in Req :
        OfficialFailed(r) =>
            /\ TIKAPI_KEY
               => (Len(Invoked(r)) >= 2 /\ Invoked(r)[2] = "managed")
            /\ (~TIKAPI_KEY /\ USE_UNOFFICIAL /\ HasUnofficialBranch(r))
               => (Len(Invoked(r)) = 2 /\ Invoked(r)[2] = "unofficial")
            /\ (~TIKAPI_KEY /\ ~(USE_UNOFFICIAL /\ HasUnofficialBranch(r)))
               => /\ pc[r] = "done"
                  /\ Len(attempts[r]) = 1
                  /\ query[r].kind = "search_user"
                     => (resp[r].status = 500
                         /\ DetailOf(resp[r]) =
                              "Failed to fetch user: No available TikTok data source configured.")
                  /\ query[r].kind = "video_stats"
                     => (resp[r].status = 500
                         /\ DetailOf(resp[r]) = "No data source available for video stats.")
                  /\ query[r].kind = "trending_hashtags"
                     => (resp[r].status = 503
                         /\ DetailOf(resp[r]) =
                              "Trending hashtags service unavailable. Configure API keys or enable fallback.")

C14_Witness ==
    \E r, s \in Req :
        /\ OfficialFailed(r) /\ pc[r] = "done" /\ query[r].kind = "search_user"
        /\ Len(attempts[r]) = 2
        /\ OfficialFailed(s) /\ pc[s] = "done" /\ query[s].kind = "trending_hashtags"

(* the provider whose successful call produced the response x *)
ProducedBy(x) == x.body.data.prov

(* the tag of x names the provider that produced it, and that provider is
   configured *)
TagTruthful(x) ==
    /\ SourceOf(x) = "official"
       => (ProducedBy(x) = "official" /\ TIKTOK_CLIENT_KEY /\ TIKTOK_CLIENT_SECRET)
    /\ SourceOf(x) = "tikapi"
       => (ProducedBy(x) = "managed" /\ TIKAPI_KEY)
    /\ SourceOf(x) = "unofficial"
       => (ProducedBy(x) = "unofficial" /\ USE_UNOFFICIAL)

(* C15: every 200 response, resolved or served from the cache, and every
   stored entry carries a source tag that names the provider whose successful
   call produced it, a provider that is configured; in the resolution that
   produced a response the tagged provider's call is the last one and
   succeeded *)
C15_SourceTagTruthful ==
    /\ \A k \in DOMAIN cache : TagTruthful(cache[k].value)
    /\ \A r \in Req :
          (pc[r] = "done" /\ IsSuccess(resp[r])) =>
              /\ TagTruthful(resp[r])
              /\ SourceOf(resp[r]) \in {"official", "tikapi", "unofficial", "fallback"}
              /\ ~hit[r] =>
                    /\ attempts[r] # <<>>
                    /\ attempts[r][Len(attempts[r])] = Att(ProducedBy(resp[r]), TRUE)
                    /\ \A i \in 1..(Len(attempts[r]) - 1) : ~attempts[r][i].ok

C15_Witness ==
    \E r, s \in Req :
        /\ pc[r] = "done" /\ hit[r] /\ SourceOf(resp[r]) = "tikapi"
        /\ Resolved(s) /\ resp[s] = resp[r]
        /\ attempts[s] = <<Att("official", FALSE), Att("managed", TRUE)>>

(* the request in slot r has its final response *)
Answered(r) ==
    /\ pc[r] = "done"
    /\ \/ IsSuccess(resp[r])
       \/ (resp[r].status \in {500, 503} /\ ~IsSuccess(resp[r]))

(* C16: given that every awaited provider call returns or fails, a request
   waiting on a provider is eventually answered, with a {source, data}
   response or an error; no resolution calls more than three providers or
   any provider twice *)
C16_Terminates ==
    /\ [](\A r \in Req : Len(Invoked(r)) <= 3 /\ NoRepeat(r))
    /\ [](\A r \in Req : pc[r] = "done" => Answered(r))
    /\ \A r \in Req : (pc[r] \in {"official", "managed"}) ~> Answered(r)

C16_Witness ==
    \E r \in Req :
        /\ Resolved(r) /\ Answered(r)
        /\ Len(attempts[r]) = 2
        /\ ~attempts[r][1].ok
====
